---- MODULE Spec2Model ----
(***************************************************************************)
(* The Sanity Index: the scoring and aggregation engine of mom_engine.py   *)
(* (transform -> direction -> rolling normalisation -> section weighted    *)
(* mean -> headline weighted mean -> EWMA smoothing) as a state machine.   *)
(*                                                                         *)
(* Numbers.  A float is an extended rational <<n, d>>: d > 0 is the finite *)
(* value n/d in lowest terms, <<0,0>> is NaN ("missing"), <<1,0>> is +inf  *)
(* and <<-1,0>> is -inf.  All arithmetic is exact except the one division  *)
(* by the rolling standard deviation (a square root), which is truncated   *)
(* toward zero to a resolution of 1/ZScale; like IEEE rounding it is       *)
(* symmetric in the sign of its operand.                                   *)
(***************************************************************************)
EXTENDS Integers, Sequences, FiniteSets, TLC

(***************************************************************************)
(* Bounds of the model.                                                    *)
(***************************************************************************)
\* months of the calendar grid of the exhaustively enumerated inputs
MaxMonths == 7
\* resolution of the z-score: z is kept in units of 1/ZScale
ZScale == 100

(***************************************************************************)
(* Program constants.                                                      *)
(***************************************************************************)
\* min_periods = max(6, window_months//2)
MinObs == 6
\* default zscore window, clip and z_to_100_sigma
DefaultWindow == 12
DefaultClip == 3
DefaultSigma == 2
\* default minmax window
DefaultMinMaxWindow == 60
\* mapped = 50.0 + (z / z_to_100_sigma) * 35.0
Baseline == 50
SigmaSpan == 35
\* clip(lower=0, upper=100) and mm * 100.0
ScoreMax == 100
\* yoy shifts by 12 months, mom by 1
YoyLag == 12
\* default EWMA span
DefaultSpan == 3

(***************************************************************************)
(* Extended rationals.                                                     *)
(***************************************************************************)
Abs(a) == IF a < 0 THEN -a ELSE a
Sgn(a) == IF a < 0 THEN -1 ELSE IF a > 0 THEN 1 ELSE 0
Max2(a, b) == IF a >= b THEN a ELSE b

RECURSIVE GCD(_, _)
GCD(a, b) == IF b = 0 THEN a ELSE GCD(b, a % b)

NaN == <<0, 0>>
PosInf == <<1, 0>>
NegInf == <<-1, 0>>
Zero == <<0, 1>>
One == <<1, 1>>

\* the float n/d (d may be 0: 0/0 is NaN, x/0 is +-inf)
Num(n, d) ==
    IF d = 0 THEN <<Sgn(n), 0>>
    ELSE LET g == GCD(Abs(n), Abs(d))
             s == IF d < 0 THEN -1 ELSE 1
         IN  <<(s * n) \div g, (s * d) \div g>>

IntNum(k) == <<k, 1>>

IsNaN(x) == x[2] = 0 /\ x[1] = 0
IsInf(x) == x[2] = 0 /\ x[1] # 0
IsFinite(x) == x[2] > 0
Defined(x) == ~IsNaN(x)

Neg(x) == <<-x[1], x[2]>>

Add(x, y) ==
    IF IsNaN(x) \/ IsNaN(y) THEN NaN
    ELSE IF IsInf(x) /\ IsInf(y) THEN (IF x[1] = y[1] THEN x ELSE NaN)
    ELSE IF IsInf(x) THEN x
    ELSE IF IsInf(y) THEN y
    ELSE Num(x[1] * y[2] + y[1] * x[2], x[2] * y[2])

Sub(x, y) == Add(x, Neg(y))

Mul(x, y) ==
    IF IsNaN(x) \/ IsNaN(y) THEN NaN
    ELSE IF IsInf(x) \/ IsInf(y)
         THEN <<Sgn(x[1]) * Sgn(y[1]), 0>>      \* 0 * inf = NaN
    ELSE Num(x[1] * y[1], x[2] * y[2])

\* IEEE division: x/0 is +-inf, 0/0 and inf/inf are NaN, x/inf is 0
Div(x, y) ==
    IF IsNaN(x) \/ IsNaN(y) THEN NaN
    ELSE IF IsInf(y) THEN (IF IsInf(x) THEN NaN ELSE Zero)
    ELSE IF IsInf(x) THEN (IF y[1] < 0 THEN Neg(x) ELSE x)
    ELSE IF y[1] = 0 THEN <<Sgn(x[1]), 0>>
    ELSE Num(x[1] * y[2], x[2] * y[1])

\* x < y on non-NaN operands
Less(x, y) ==
    IF IsInf(x) THEN x[1] < 0 /\ y # x
    ELSE IF IsInf(y) THEN y[1] > 0
    ELSE x[1] * y[2] < y[1] * x[2]

Leq(x, y) == x = y \/ Less(x, y)

\* Series.clip(lower, upper): NaN stays NaN
Clip(x, lo, hi) ==
    IF IsNaN(x) THEN NaN
    ELSE IF Less(x, lo) THEN lo
    ELSE IF Less(hi, x) THEN hi
    ELSE x

\* Series.replace(0, np.nan)
ReplaceZero(x) == IF x = Zero THEN NaN ELSE x

RECURSIVE SumOver(_, _)
\* sum of f[i] over the finite set S of indices
SumOver(f, S) ==
    IF S = {} THEN Zero
    ELSE LET i == CHOOSE j \in S : TRUE
         IN  Add(f[i], SumOver(f, S \ {i}))

RECURSIVE ISqrtSearch(_, _, _, _)
\* the largest k in lo..hi with k*k*q <= p (lo satisfies it)
ISqrtSearch(p, q, lo, hi) ==
    IF lo >= hi THEN lo
    ELSE LET mid == (lo + hi + 1) \div 2
         IN  IF mid * mid * q <= p THEN ISqrtSearch(p, q, mid, hi)
             ELSE ISqrtSearch(p, q, lo, mid - 1)

RECURSIVE SqrtBound(_, _, _)
\* some k >= 1 with k*k*q > p
SqrtBound(p, q, k) == IF k * k * q > p THEN k ELSE SqrtBound(p, q, 2 * k)

\* floor(ZScale * sqrt(r)) / ZScale for a finite r >= 0
SqrtTrunc(r) ==
    LET p == r[1] * ZScale * ZScale
        q == r[2]
    IN  Num(ISqrtSearch(p, q, 0, SqrtBound(p, q, 1)), ZScale)

(***************************************************************************)
(* transform_series.  A series is a sequence over the months 1..N of the   *)
(* calendar grid; a month without a row is NaN (reindex(full_months)).     *)
(***************************************************************************)
Months(s) == 1..Len(s)

\* s.shift(lag)
Shift(s, lag) == [t \in Months(s) |-> IF t <= lag THEN NaN ELSE s[t - lag]]

\* (s / s.shift(lag) - 1.0) * 100.0
PctChange(s, lag) ==
    [t \in Months(s) |->
        Mul(Sub(Div(s[t], Shift(s, lag)[t]), One), IntNum(ScoreMax))]

TransformSeries(s, transform) ==
    CASE transform = "level" -> s
      [] transform = "delta" -> [t \in Months(s) |-> Sub(s[t], Shift(s, 1)[t])]
      [] transform = "yoy"   -> PctChange(s, YoyLag)
      [] transform = "mom"   -> PctChange(s, 1)
      [] OTHER               -> s

\* the direction ignored: no flip
ApplyDirection_ignored(s, direction) == s

\* direction flip: s = -1.0 * s for lower_is_worse
ApplyDirection(s, direction) ==
    IF direction = "lower_is_worse" THEN [t \in Months(s) |-> Neg(s[t])] ELSE s

(***************************************************************************)
(* Series.rolling(window, min_periods): the trailing window of `window`    *)
(* months ending at t.  pandas turns +-inf into NaN before any rolling     *)
(* statistic, so an observation is a finite value.  The constructor raises *)
(* ValueError when min_periods > window.                                   *)
(***************************************************************************)
MinPeriods(window) == Max2(MinObs, window \div 2)

RollingRaises(window) == MinPeriods(window) > window

RollObs(s, window, t) ==
    {i \in Max2(1, t - window + 1)..t : IsFinite(s[i])}

EnoughObs(s, window, t) == Cardinality(RollObs(s, window, t)) >= MinPeriods(window)

RollMean(s, window, t) ==
    LET obs == RollObs(s, window, t)
    IN  IF ~EnoughObs(s, window, t) THEN NaN
        ELSE Div(SumOver(s, obs), IntNum(Cardinality(obs)))

\* the square of rolling(...).std(ddof=0): the population variance
RollVar(s, window, t) ==
    LET obs == RollObs(s, window, t)
        n   == IntNum(Cardinality(obs))
        sq  == [i \in obs |-> Mul(s[i], s[i])]
        m   == Div(SumOver(s, obs), n)
    IN  IF ~EnoughObs(s, window, t) THEN NaN
        ELSE Sub(Div(SumOver(sq, obs), n), Mul(m, m))

RollMin(s, window, t) ==
    LET obs == RollObs(s, window, t)
    IN  IF ~EnoughObs(s, window, t) THEN NaN
        ELSE s[CHOOSE i \in obs : \A j \in obs : Leq(s[i], s[j])]

RollMax(s, window, t) ==
    LET obs == RollObs(s, window, t)
    IN  IF ~EnoughObs(s, window, t) THEN NaN
        ELSE s[CHOOSE i \in obs : \A j \in obs : Leq(s[j], s[i])]

(***************************************************************************)
(* zscore_normalise                                                        *)
(***************************************************************************)
\* diff / std with a zero std guarded by returning 0 instead of NaN
DivByStd_zero_guard(diff, var) ==
    IF IsNaN(diff) THEN NaN
    ELSE IF IsNaN(var) \/ var = Zero THEN Zero
    ELSE IF IsInf(diff) THEN diff
    ELSE LET r == SqrtTrunc(Div(Mul(diff, diff), var))
         IN  IF diff[1] < 0 THEN Neg(r) ELSE r

\* diff / std, std given by its square var (after replace(0, nan)); the
\* square root is truncated toward zero to 1/ZScale
DivByStd(diff, var) ==
    IF IsNaN(diff) \/ IsNaN(var) THEN NaN
    ELSE IF var = Zero THEN Div(diff, Zero)
    ELSE IF IsInf(diff) THEN diff
    ELSE LET r == SqrtTrunc(Div(Mul(diff, diff), var))
         IN  IF diff[1] < 0 THEN Neg(r) ELSE r

\* z with a zero standard deviation read as "no deviation": z = 0
ZOf_zero_std_is_zero(s, window, t) ==
    IF RollVar(s, window, t) = Zero /\ Defined(s[t]) THEN Zero
    ELSE DivByStd(Sub(s[t], RollMean(s, window, t)), RollVar(s, window, t))

\* z = (series - roll_mean) / roll_std.replace(0, np.nan)
ZOf(s, window, t) ==
    DivByStd(Sub(s[t], RollMean(s, window, t)), ReplaceZero(RollVar(s, window, t)))

\* z.clip(lower=-clip, upper=clip)
ClipZ(z, clip) == Clip(z, Neg(clip), clip)

\* mapped = 50.0 + (z / z_to_100_sigma) * 35.0
MapZ(z, sigma) == Add(IntNum(Baseline), Mul(Div(z, sigma), IntNum(SigmaSpan)))

\* the mapped score without its final clip
ClipScore_omitted(x) == x

\* mapped.clip(lower=0, upper=100)
ClipScore(x) == Clip(x, Zero, IntNum(ScoreMax))

zscore_normalise(s, window, clip, sigma) ==
    [t \in Months(s) |-> ClipScore(MapZ(ClipZ(ZOf(s, window, t), clip), sigma))]

(***************************************************************************)
(* the minmax fallback of compute_indicator_score                          *)
(***************************************************************************)
\* mm = (s - roll_min) / (roll_max - roll_min).replace(0, np.nan)
MinMaxOf(s, window, t) ==
    Div(Sub(s[t], RollMin(s, window, t)),
        ReplaceZero(Sub(RollMax(s, window, t), RollMin(s, window, t))))

minmax_normalise(s, window) ==
    [t \in Months(s) |-> ClipScore(Mul(MinMaxOf(s, window, t), IntNum(ScoreMax)))]

(***************************************************************************)
(* compute_indicator_score.  An indicator spec is a record                 *)
(*   [id, transform, direction, section_weight, normalise],                *)
(* normalise = [method, window_months, clip, z_to_100_sigma]; method       *)
(* "absent" stands for a missing or empty normalise dict and               *)
(* window_months = 0 for a missing window_months key.                      *)
(***************************************************************************)
DefaultNorm ==
    [method |-> "zscore", window_months |-> DefaultWindow,
     clip |-> IntNum(DefaultClip), z_to_100_sigma |-> IntNum(DefaultSigma)]

NormOf(ind) ==
    IF ind.normalise.method = "absent" THEN DefaultNorm ELSE ind.normalise

WindowOf(ind) ==
    LET norm == NormOf(ind)
    IN  IF norm.window_months # 0 THEN norm.window_months
        ELSE IF norm.method = "zscore" THEN DefaultWindow
        ELSE DefaultMinMaxWindow

\* the transformed, direction-adjusted series that is normalised
DirectedSeries(values, ind) ==
    ApplyDirection(TransformSeries(values, ind.transform), ind.direction)

\* the rolling(...) constructor raises ValueError
ScoreRaises(ind) == RollingRaises(WindowOf(ind))

compute_indicator_score(values, ind) ==
    LET s    == DirectedSeries(values, ind)
        norm == NormOf(ind)
    IN  IF norm.method = "zscore"
        THEN zscore_normalise(s, WindowOf(ind), norm.clip, norm.z_to_100_sigma)
        ELSE minmax_normalise(s, WindowOf(ind))


(***************************************************************************)
(* Weighted means of MoMEngine.compute                                     *)
(***************************************************************************)
\* W / W.sum() if W.sum() > 0 else np.ones_like(W) / len(W)
NormaliseWeights(W) ==
    LET total == SumOver(W, DOMAIN W)
    IN  IF Less(Zero, total)
        THEN [i \in DOMAIN W |-> Div(W[i], total)]
        ELSE [i \in DOMAIN W |-> Div(One, IntNum(Len(W)))]

\* the weighted mean without the fallback to uniform weights: weights that
\* sum to 0 give no average
weighted_mean_row_nofallback(vals, weights) ==
    LET mask == {i \in DOMAIN vals : Defined(vals[i])}
        wsum == SumOver(weights, mask)
        vw   == [i \in mask |-> Mul(vals[i], weights[i])]
    IN  IF mask = {} \/ wsum = Zero THEN NaN
        ELSE Div(SumOver(vw, mask), wsum)

\* the weighted mean with a missing value counted as a score of 0 that keeps
\* its weight (no restriction of the weights to the defined values)
weighted_mean_row_unmasked(vals, weights) ==
    LET mask == {i \in DOMAIN vals : Defined(vals[i])}
        all  == DOMAIN vals
        wsum == SumOver(weights, all)
        vw   == [i \in mask |-> Mul(vals[i], weights[i])]
    IN  IF mask = {} THEN NaN
        ELSE IF wsum = Zero
             THEN Div(SumOver(vals, mask), IntNum(Cardinality(all)))
             ELSE Div(SumOver(vw, mask), wsum)

\* weighted_mean_row / wmean_row: vals and weights are sequences of one length
weighted_mean_row(vals, weights) ==
    LET mask == {i \in DOMAIN vals : Defined(vals[i])}
        wsum == SumOver(weights, mask)
        w    == IF wsum = Zero
                THEN [i \in mask |-> Div(One, IntNum(Cardinality(mask)))]
                ELSE [i \in mask |-> Div(weights[i], wsum)]
        vw   == [i \in mask |-> Mul(vals[i], w[i])]
    IN  IF mask = {} THEN NaN
        ELSE Div(SumOver(vw, mask), SumOver(w, mask))     \* np.average

\* one weighted mean per month of the grid over the columns cols
WeightedMeanRows(cols, W, n) ==
    [t \in 1..n |-> weighted_mean_row([j \in DOMAIN cols |-> cols[j][t]], W)]

(***************************************************************************)
(* Series.ewm(span, adjust=False).mean(): pandas' recursion with           *)
(* ignore_na=False and min_periods=0.  old_wt decays at every month after  *)
(* the first observation; a missing month outputs the running average.     *)
(***************************************************************************)
Alpha(span) == Div(IntNum(2), IntNum(span + 1))

RECURSIVE EwmFrom(_, _, _, _, _)
EwmFrom(vals, span, weighted, old_wt, out) ==
    LET i == Len(out) + 1 IN
    IF i > Len(vals) THEN out
    ELSE LET cur    == vals[i]
             decay  == Mul(old_wt, Sub(One, Alpha(span)))
             blend  == Div(Add(Mul(decay, weighted), Mul(Alpha(span), cur)),
                           Add(decay, Alpha(span)))
             w2     == IF IsNaN(weighted) THEN cur
                       ELSE IF IsNaN(cur) \/ weighted = cur THEN weighted
                       ELSE blend
             old2   == IF IsNaN(weighted) \/ Defined(cur) THEN One ELSE decay
         IN  EwmFrom(vals, span, w2, old2, Append(out, w2))

ewma(vals, span) == EwmFrom(vals, span, NaN, One, <<>>)

(***************************************************************************)
(* State.                                                                  *)
(*   cfg   the engine's config: [sections, span]; a section is             *)
(*         [id, weight, indicators]; span = 0 stands for an absent         *)
(*         composite.smoothing.span_months                                 *)
(*   ts    the input rows, pivoted: series_id -> values over the months    *)
(*         1..N of full_months (NaN where the month has no row)            *)
(*   pc    position in compute: "sections", "headline", "smooth", "done"   *)
(*         (returned) or "failed" (an exception left compute)              *)
(*   sec_i the section the loop of compute is at                           *)
(*   indicator_scores, section_scores, headline, headline_smoothed         *)
(*         the locals of compute of those names; section_scores doubles    *)
(*         as `aligned`, which is the same table                           *)
(*   err   the exception raised, "" if none                                *)
(***************************************************************************)
VARIABLES cfg, ts, pc, sec_i, indicator_scores, section_scores,
          headline, headline_smoothed, err

\* the argument and the return value of one momentum_label call
VARIABLES series, label

\* the locals of MoMEngine.compute
engine_vars == <<cfg, ts, pc, sec_i, indicator_scores, section_scores,
                 headline, headline_smoothed, err>>

label_vars == <<series, label>>

\* free_feed_api.py: the ttl_seconds, cache and stamp of the ttl_cache
\* wrappers, keyed by <<function, arguments>>, and time.time()
VARIABLES ttl, cache, stamp, clock

cache_vars == <<ttl, cache, stamp, clock>>

\* calls of a ttl_cache wrapper:
\*   calls    the calls suspended at `await func(...)`, each with its key and t
\*   ncalls   the number of calls made so far
\*   ret      the last step of a call: what it did (hit: returned the stored
\*            result, invoke: called func, return: func returned, raise: func
\*            raised), its key, t and result, and cache and stamp before it
\*   returned the <<key, res, t>> of the calls whose func returned so far
VARIABLES calls, ncalls, ret, returned

call_vars == <<calls, ncalls, ret, returned>>

\* app.py, one run of the script down to "Load Data", with the /indices
\* request it waits for:
\*   page     position of the script
\*   sym_i, results   `for sym in symbols` and `results` of indices()
\*   req_at   the time the pending request was sent
\*   quotes, crypto   the script's variables of those names
\*   board    the two Live Board lines written
\*   page_err the uncaught exception of the script, "" if none
VARIABLES page, sym_i, results, req_at, quotes, crypto, board, page_err

board_vars == <<page, sym_i, results, req_at, quotes, crypto, board, page_err>>

\* the state outside MoMEngine.compute
aux_vars == <<label_vars, cache_vars, call_vars, board_vars>>

vars == <<engine_vars, aux_vars>>

\* number of months of full_months
GridLen == Len(ts[CHOOSE id \in DOMAIN ts : TRUE])

AllMissing(n) == [t \in 1..n |-> NaN]

\* ts[ts["series_id"] == sid] reindexed onto the grid
SeriesOf(sid) == IF sid \in DOMAIN ts THEN ts[sid] ELSE AllMissing(GridLen)

\* not sdf["value"].isna().all()
HasData(sid) == \E t \in 1..GridLen : Defined(SeriesOf(sid)[t])

RECURSIVE KeptUpTo(_, _)
\* positions j <= k of the indicators of inds that are not skipped, in order
KeptUpTo(inds, k) ==
    IF k = 0 THEN <<>>
    ELSE IF HasData(inds[k].id) THEN Append(KeptUpTo(inds, k - 1), k)
    ELSE KeptUpTo(inds, k - 1)

KeptInds(sec) == KeptUpTo(sec.indicators, Len(sec.indicators))

\* ind.get("section_weight", 1.0/len(inds)); NaN stands for an absent key
SectionWeightOf(sec, j) ==
    LET w == sec.indicators[j].section_weight
    IN  IF IsNaN(w) THEN Div(One, IntNum(Len(sec.indicators))) ELSE w

\* the section score as the plain sum of configured weight times score, a
\* skipped or missing indicator contributing nothing
SectionScore_penalised(sec, scores) ==
    LET kept == KeptInds(sec)
    IN  [t \in 1..GridLen |->
           LET mask == {k \in DOMAIN kept : Defined(scores[k][t])}
               wv   == [k \in mask |-> Mul(SectionWeightOf(sec, kept[k]), scores[k][t])]
           IN  IF mask = {} THEN NaN ELSE SumOver(wv, mask)]

\* sec_weights, W and the per-month weighted mean over the score series
\* `scores` of the kept indicators of sec
SectionScore(sec, scores) ==
    LET kept == KeptInds(sec)
        W    == NormaliseWeights([k \in DOMAIN kept |-> SectionWeightOf(sec, kept[k])])
    IN  WeightedMeanRows(scores, W, GridLen)

\* some kept indicator's scoring raises
SectionRaises(sec) ==
    \E k \in DOMAIN KeptInds(sec) : ScoreRaises(sec.indicators[KeptInds(sec)[k]])

RECURSIVE SetToSeq(_)
\* the increasing sequence of a finite set of integers
SetToSeq(S) ==
    IF S = {} THEN <<>>
    ELSE LET m == CHOOSE x \in S : \A y \in S : y <= x
         IN  Append(SetToSeq(S \ {m}), m)

\* the raw headline over the sections `present` (section positions), from
\* the table of section scores
HeadlineOf(table, present) ==
    LET cols == SetToSeq(present)
        hw   == NormaliseWeights([k \in DOMAIN cols |-> cfg.sections[cols[k]].weight])
    IN  WeightedMeanRows([k \in DOMAIN cols |-> table[cols[k]]], hw, GridLen)

SpanOf == IF cfg.span = 0 THEN DefaultSpan ELSE cfg.span

(***************************************************************************)
(* Actions: the steps of MoMEngine.compute.                                *)
(***************************************************************************)
NoScores == [x \in {} |-> NaN]

\* one iteration of `for sec in self.sections`
ScoreSection ==
    /\ pc = "sections"
    /\ sec_i <= Len(cfg.sections)
    /\ ~SectionRaises(cfg.sections[sec_i])
    /\ LET sec  == cfg.sections[sec_i]
           kept == KeptInds(sec)
       IN  /\ indicator_scores' =
                [p \in DOMAIN indicator_scores
                         \cup {<<sec_i, kept[k]>> : k \in DOMAIN kept} |->
                    IF p[1] = sec_i
                    THEN compute_indicator_score(SeriesOf(sec.indicators[p[2]].id),
                                                 sec.indicators[p[2]])
                    ELSE indicator_scores[p]]
           /\ section_scores' =
                IF kept = <<>> THEN section_scores
                ELSE [i \in DOMAIN section_scores \cup {sec_i} |->
                        IF i = sec_i
                        THEN SectionScore(sec, [k \in DOMAIN kept |->
                                                  indicator_scores'[<<sec_i, kept[k]>>]])
                        ELSE section_scores[i]]
    /\ sec_i' = sec_i + 1
    /\ UNCHANGED <<cfg, ts, pc, headline, headline_smoothed, err>>
    /\ UNCHANGED aux_vars

\* rolling(window, min_periods) raises ValueError inside compute_indicator_score
ScoreSectionRaises ==
    /\ pc = "sections"
    /\ sec_i <= Len(cfg.sections)
    /\ SectionRaises(cfg.sections[sec_i])
    /\ pc' = "failed"
    /\ err' = "ValueError: min_periods must be <= window"
    /\ UNCHANGED <<cfg, ts, sec_i, indicator_scores, section_scores,
                   headline, headline_smoothed>>
    /\ UNCHANGED aux_vars

\* if not section_scores: raise ValueError(...)
RaiseNoSections ==
    /\ pc = "sections"
    /\ sec_i > Len(cfg.sections)
    /\ DOMAIN section_scores = {}
    /\ pc' = "failed"
    /\ err' = "ValueError: No section scores computed"
    /\ UNCHANGED <<cfg, ts, sec_i, indicator_scores, section_scores,
                   headline, headline_smoothed>>
    /\ UNCHANGED aux_vars

\* aligned, hw, headline
AggregateHeadline ==
    /\ pc = "sections"
    /\ sec_i > Len(cfg.sections)
    /\ DOMAIN section_scores # {}
    /\ headline' = HeadlineOf(section_scores, DOMAIN section_scores)
    /\ pc' = "smooth"
    /\ UNCHANGED <<cfg, ts, sec_i, indicator_scores, section_scores,
                   headline_smoothed, err>>
    /\ UNCHANGED aux_vars

\* headline_smoothed = headline.ewm(span, adjust=False).mean(); return
SmoothHeadline ==
    /\ pc = "smooth"
    /\ headline_smoothed' = ewma(headline, SpanOf)
    /\ pc' = "done"
    /\ UNCHANGED <<cfg, ts, sec_i, indicator_scores, section_scores, headline, err>>
    /\ UNCHANGED aux_vars

Next ==
    \/ ScoreSection
    \/ ScoreSectionRaises
    \/ RaiseNoSections
    \/ AggregateHeadline
    \/ SmoothHeadline

(***************************************************************************)
(* Inputs.  Init draws the config and the input rows of one compute call   *)
(* from four bounded families.                                             *)
(***************************************************************************)
Norm(method, window, clip, sigma) ==
    [method |-> method, window_months |-> window,
     clip |-> IntNum(clip), z_to_100_sigma |-> IntNum(sigma)]

Indicator(id, transform, direction, weight, norm) ==
    [id |-> id, transform |-> transform, direction |-> direction,
     section_weight |-> weight, normalise |-> norm]

Section(id, weight, inds) == [id |-> id, weight |-> weight, indicators |-> inds]

Directions == {"higher_is_worse", "lower_is_worse"}

Half == Num(1, 2)

\* raw observations of the exhaustive family
RawValues == {NaN, Zero, One}

\* the indicator specs of the exhaustive family
SingleSpecs ==
    {Indicator("A", "level", dir, One, norm) :
        dir \in Directions, norm \in {Norm("zscore", 12, 3, 2), Norm("minmax", 12, 3, 2)}}
    \cup
    {Indicator("A", "delta", "lower_is_worse", One, Norm("absent", 0, 3, 2)),
     Indicator("A", "mom", "lower_is_worse", One, Norm("zscore", 6, 1, 2)),
     Indicator("A", "mom", "higher_is_worse", One, Norm("minmax", 7, 3, 2)),
     Indicator("A", "yoy", "higher_is_worse", One, Norm("zscore", 13, 3, 1)),
     Indicator("A", "log", "lower_is_worse", One, Norm("minmax", 0, 3, 2)),
     Indicator("A", "level", "higher_is_worse", One, Norm("zscore", 3, 3, 2)),
     Indicator("A", "level", "lower_is_worse", One, Norm("minmax", 4, 3, 2))}

\* one section, one indicator, every series over MaxMonths months
InitSingle ==
    /\ \E ind \in SingleSpecs :
         cfg = [sections |-> <<Section(1, One, <<ind>>)>>, span |-> 0]
    /\ \E s \in [1..MaxMonths -> RawValues] : ts = [id \in {"A"} |-> s]

\* the 13-month series: twelve times 10, then `last`
ScenarioSeries(last) == [t \in 1..13 |-> IF t <= 12 THEN IntNum(10) ELSE IntNum(last)]

InitScenario ==
    /\ \E dir \in Directions, w \in {Half, One} :
         cfg = [sections |->
                  <<Section(1, One, <<Indicator("A", "level", dir, w,
                                                Norm("zscore", 12, 3, 2))>>)>>,
                span |-> 0]
    /\ \E last \in {10, 11, 20} : ts = [id \in {"A"} |-> ScenarioSeries(last)]

\* patterned series over MaxMonths + 1 months, with an optional missing month
PatternValue(p, t) ==
    CASE p = "alt"  -> t % 2
      [] p = "ramp" -> t
      [] p = "step" -> IF t <= MinObs THEN 0 ELSE 2
      [] OTHER      -> 1

Pattern(p, gap) ==
    [t \in 1..(MaxMonths + 1) |-> IF t = gap THEN NaN ELSE IntNum(PatternValue(p, t))]

\* two indicators in one section: every pair of patterns or absent series,
\* every pair of weights
PairSeries ==
    {Pattern(p, gap) : p \in {"alt", "ramp", "step"}, gap \in {0, MaxMonths}}
    \cup {AllMissing(MaxMonths + 1)}

PairWeights == {NaN, Zero, Half, IntNum(2)}

InitPair ==
    /\ \E wa \in PairWeights, wb \in PairWeights :
         cfg = [sections |->
                  <<Section(1, One,
                      <<Indicator("A", "level", "higher_is_worse", wa, Norm("absent", 0, 3, 2)),
                        Indicator("B", "level", "lower_is_worse", wb, Norm("minmax", 6, 3, 2))>>)>>,
                span |-> 0]
    /\ \E present \in (SUBSET {"A", "B"}) \ {{}} :
         ts \in [present -> PairSeries]

\* three sections of one indicator each: patterns or absent, section weights, span
TripleSeries == {Pattern("alt", 0), Pattern("alt", MaxMonths), Pattern("step", 0),
                 AllMissing(MaxMonths + 1)}

TripleWeights == {Zero, One, IntNum(2)}

InitTriple ==
    /\ \E w \in [1..3 -> TripleWeights], span \in {0, 1} :
         cfg = [sections |->
                  <<Section(1, w[1], <<Indicator("A", "level", "higher_is_worse", One,
                                                  Norm("zscore", 12, 3, 2))>>),
                    Section(2, w[2], <<Indicator("B", "level", "lower_is_worse", One,
                                                  Norm("zscore", 6, 3, 2))>>),
                    Section(3, w[3], <<Indicator("C", "delta", "higher_is_worse", One,
                                                  Norm("minmax", 6, 3, 2))>>)>>,
                span |-> span]
    /\ ts \in [{"A", "B", "C"} -> TripleSeries]

\* no momentum_label call
LabelIdle == series = <<>> /\ label = "pending"

\* an empty dict
NoEntries == [x \in {} |-> ""]

\* no function decorated with ttl_cache
CacheIdle == ttl = NoEntries /\ cache = NoEntries /\ stamp = NoEntries /\ clock = 0

\* the Live Board before either line is written
NoBoard == [indices |-> <<>>, crypto |-> <<>>]

\* the dashboard script not run
BoardIdle ==
    /\ page = "closed"
    /\ sym_i = 1
    /\ results = NoEntries
    /\ req_at = 0
    /\ quotes = NoEntries
    /\ crypto = NoEntries
    /\ board = NoBoard
    /\ page_err = ""

\* no step of a wrapper call yet
NoRet == [kind |-> "none", key |-> <<>>, t |-> 0, res |-> "",
          cache0 |-> NoEntries, stamp0 |-> NoEntries]

\* no wrapper call made
CallsIdle == calls = {} /\ ncalls = 0 /\ ret = NoRet /\ returned = {}

AuxIdle == LabelIdle /\ CacheIdle /\ CallsIdle /\ BoardIdle

Init ==
    /\ \/ InitSingle
       \/ InitScenario
       \/ InitPair
       \/ InitTriple
    /\ pc = "sections"
    /\ sec_i = 1
    /\ indicator_scores = NoScores
    /\ section_scores = NoScores
    /\ headline = <<>>
    /\ headline_smoothed = <<>>
    /\ err = ""
    /\ AuxIdle

Spec == Init /\ [][Next]_vars

(***************************************************************************)
(* momentum_label: the diagnostic label of a score series.                 *)
(***************************************************************************)
\* bound: the longest score series labelled
MaxLabelLen == 7
\* series.rolling(12, min_periods=6)
LabelWindow == 12
LabelMinPeriods == 6
\* series.iloc[-3], taken when len(series) >= 3
SlopeBack == 3

\* the 0.5 of both tests
LabelThreshold == Num(1, 2)

\* x > y and x < y of floats: False when either side is NaN
Gt(x, y) == Defined(x) /\ Defined(y) /\ Less(y, x)
Lt(x, y) == Gt(y, x)

\* diff / sqrt(var) >= c for a c > 0, decided exactly; var = 0 divides by a
\* zero std (no replace(0, nan) here), which gives +-inf or NaN
QuotGeq(diff, var, c) ==
    IF IsNaN(diff) \/ IsNaN(var) THEN FALSE
    ELSE IF var = Zero THEN Div(diff, Zero) = PosInf
    ELSE IF IsInf(diff) THEN diff = PosInf
    ELSE Less(Zero, diff) /\ Leq(Mul(Mul(c, c), var), Mul(diff, diff))

\* the last window of series.rolling(12, min_periods=6)
LabelObs(s) == RollObs(s, LabelWindow, Len(s))

LabelEnough(s) == Cardinality(LabelObs(s)) >= LabelMinPeriods

\* series.rolling(12, min_periods=6).mean() at the last month
LabelMean(s) ==
    IF ~LabelEnough(s) THEN NaN
    ELSE Div(SumOver(s, LabelObs(s)), IntNum(Cardinality(LabelObs(s))))

\* the square of series.rolling(12, min_periods=6).std(ddof=0) at the last month
LabelVar(s) ==
    LET obs == LabelObs(s)
        n   == IntNum(Cardinality(obs))
        sq  == [i \in obs |-> Mul(s[i], s[i])]
        m   == Div(SumOver(s, obs), n)
    IN  IF ~LabelEnough(s) THEN NaN
        ELSE Sub(Div(SumOver(sq, obs), n), Mul(m, m))

\* z_last >= 0.5
ZLastHigh(s) == QuotGeq(Sub(s[Len(s)], LabelMean(s)), LabelVar(s), LabelThreshold)

\* z_last <= -0.5
ZLastLow(s) == QuotGeq(Neg(Sub(s[Len(s)], LabelMean(s))), LabelVar(s), LabelThreshold)

\* slope = (series.iloc[-1] - series.iloc[-3]) if len(series) >= 3 else 0.0
Slope(s) ==
    IF Len(s) >= SlopeBack THEN Sub(s[Len(s)], s[Len(s) - SlopeBack + 1]) ELSE Zero

momentum_label(s) ==
    IF \A t \in Months(s) : IsNaN(s[t]) THEN "Unknown"
    ELSE IF ZLastHigh(s) \/ Gt(Slope(s), LabelThreshold) THEN "Worsening"
    ELSE IF ZLastLow(s) \/ Lt(Slope(s), Neg(LabelThreshold)) THEN "Easing"
    ELSE "Stable"

\* the values of the labelled series: scores in [0, 100] or missing
LabelValues == {NaN, IntNum(40), IntNum(50), Num(101, 2), IntNum(60)}

EngineIdle ==
    /\ cfg = [sections |-> <<>>, span |-> 0]
    /\ ts = [id \in {} |-> <<>>]
    /\ pc = "idle"
    /\ sec_i = 1
    /\ indicator_scores = NoScores
    /\ section_scores = NoScores
    /\ headline = <<>>
    /\ headline_smoothed = <<>>
    /\ err = ""

\* a score series of up to MaxLabelLen months is about to be labelled
InitLabel ==
    /\ EngineIdle
    /\ CacheIdle
    /\ CallsIdle
    /\ BoardIdle
    /\ series \in UNION {[1..n -> LabelValues] : n \in 0..MaxLabelLen}
    /\ label = "pending"

\* the call momentum_label(series)
LabelSeries ==
    /\ label = "pending"
    /\ label' = momentum_label(series)
    /\ UNCHANGED <<series, engine_vars, cache_vars, call_vars, board_vars>>

NextLabel == LabelSeries

SpecLabel == InitLabel /\ [][NextLabel]_vars

(***************************************************************************)
(* free_feed_api.py: ttl_cache.  One wrapper call is                       *)
(*   key = (args, kwargs); t = time.time()                                 *)
(*   if key in cache and (t - stamp[key]) < ttl_seconds: return cache[key] *)
(*   res = await func(args, kwargs)                                        *)
(*   cache[key] = res; stamp[key] = t; return res                          *)
(* Each decorated function has its own cache and stamp; the model keeps    *)
(* them in one map keyed by <<function, arguments>>.                       *)
(***************************************************************************)
\* the stored result for key is served whatever its age
Fresh_no_expiry(key, t) == key \in DOMAIN cache

\* key in cache and (t - stamp[key]) < ttl_seconds
Fresh(key, t) == key \in DOMAIN cache /\ t - stamp[key] < ttl[key[1]]

\* d[key] = v
Put(d, key, v) == [k \in DOMAIN d \cup {key} |-> IF k = key THEN v ELSE d[k]]

\* d.update(e)
Update(d, e) == [k \in DOMAIN d \cup DOMAIN e |-> IF k \in DOMAIN e THEN e[k] ELSE d[k]]

(***************************************************************************)
(* free_feed_api.py: yahoo_quote_single, /indices, coingecko_prices and    *)
(* /crypto; app.py: fetch_json and the Live Board.                          *)
(***************************************************************************)
\* @ttl_cache(30) of yahoo_quote_single, @ttl_cache(5) of coingecko_prices
YahooTtl == 30
CoinTtl == 5
\* httpx.AsyncClient(timeout=10) of get_json, httpx.Client(timeout=4) of fetch_json
UpstreamTimeout == 10
AppTimeout == 4

\* symbols of indices()
IndexSymbols == <<"^GSPC", "^NDX", "^FTSE", "^GDAXI", "^N225", "^HSI">>
\* the symbols the Live Board line reads
BoardSymbols == <<"^GSPC", "^NDX", "^FTSE", "^GDAXI">>
\* the coins the Live Board line reads, as coingecko_prices keys them
BoardCoins == <<"BITCOIN", "ETHEREUM">>

\* what one upstream request does
Outcomes == {"success", "empty", "exception", "timeout"}

\* the return value of yahoo_quote_single(sym) when get_json returns
YahooResult(sym, outcome) ==
    IF outcome = "empty"
    THEN [s \in {sym} |-> [error |-> "No data returned"]]
    ELSE [s \in {sym} |-> [symbol |-> sym, last |-> "price"]]

\* str(e) of the exception get_json raises
ErrorText(outcome) == IF outcome = "timeout" THEN "ReadTimeout" ELSE "HTTPStatusError"

\* time.time() once the upstream request has finished
After(outcome) == IF outcome = "timeout" THEN clock + UpstreamTimeout ELSE clock

\* the "data" of coingecko_prices when get_json returns
CoinData(outcome) ==
    IF outcome = "empty" THEN NoEntries
    ELSE [c \in {BoardCoins[i] : i \in DOMAIN BoardCoins} |-> [USD |-> "price"]]

YahooFunc == "yahoo_quote_single"
CoinFunc == "coingecko_prices"

YahooKey(sym) == <<YahooFunc, sym>>
CoinKey == <<CoinFunc, "bitcoin,ethereum">>

\* one iteration of `for sym in symbols`, yahoo_quote_single served from cache
IndicesSymbolCached ==
    /\ page = "indices"
    /\ sym_i <= Len(IndexSymbols)
    /\ Fresh(YahooKey(IndexSymbols[sym_i]), clock)
    /\ results' = Update(results, cache[YahooKey(IndexSymbols[sym_i])])
    /\ sym_i' = sym_i + 1
    /\ UNCHANGED <<page, req_at, quotes, crypto, board, page_err>>
    /\ UNCHANGED <<cache_vars, label_vars, engine_vars, call_vars>>

\* one iteration, yahoo_quote_single returns: a quote or the "No data
\* returned" entry, stored by the wrapper either way
IndicesSymbolFetched ==
    /\ page = "indices"
    /\ sym_i <= Len(IndexSymbols)
    /\ ~Fresh(YahooKey(IndexSymbols[sym_i]), clock)
    /\ \E outcome \in {"success", "empty"} :
         LET res == YahooResult(IndexSymbols[sym_i], outcome)
         IN  /\ cache' = Put(cache, YahooKey(IndexSymbols[sym_i]), res)
             /\ stamp' = Put(stamp, YahooKey(IndexSymbols[sym_i]), clock)
             /\ results' = Update(results, res)
    /\ sym_i' = sym_i + 1
    /\ UNCHANGED <<ttl, clock>>
    /\ UNCHANGED <<page, req_at, quotes, crypto, board, page_err>>
    /\ UNCHANGED <<label_vars, engine_vars, call_vars>>

\* one iteration, yahoo_quote_single raises: except Exception as e
IndicesSymbolFailed ==
    /\ page = "indices"
    /\ sym_i <= Len(IndexSymbols)
    /\ ~Fresh(YahooKey(IndexSymbols[sym_i]), clock)
    /\ \E outcome \in {"exception", "timeout"} :
         /\ results' = Put(results, IndexSymbols[sym_i], [error |-> ErrorText(outcome)])
         /\ clock' = After(outcome)
    /\ sym_i' = sym_i + 1
    /\ UNCHANGED <<ttl, cache, stamp>>
    /\ UNCHANGED <<page, req_at, quotes, crypto, board, page_err>>
    /\ UNCHANGED <<label_vars, engine_vars, call_vars>>

\* quotes = fetch_json("/indices") or {}: the response of indices(), or the
\* default when the response took longer than the client's timeout
FetchIndices ==
    /\ page = "indices"
    /\ sym_i > Len(IndexSymbols)
    /\ quotes' = IF clock - req_at > AppTimeout THEN NoEntries ELSE [data |-> results]
    /\ req_at' = clock
    /\ page' = "crypto"
    /\ UNCHANGED <<sym_i, results, crypto, board, page_err>>
    /\ UNCHANGED <<cache_vars, label_vars, engine_vars, call_vars>>

\* crypto = fetch_json("/crypto", ...) or {}, coingecko_prices served from cache
FetchCryptoCached ==
    /\ page = "crypto"
    /\ Fresh(CoinKey, clock)
    /\ crypto' = cache[CoinKey]
    /\ page' = "render"
    /\ UNCHANGED <<sym_i, results, req_at, quotes, board, page_err>>
    /\ UNCHANGED <<cache_vars, label_vars, engine_vars, call_vars>>

\* crypto = fetch_json("/crypto", ...) or {}, coingecko_prices returns
FetchCryptoFetched ==
    /\ page = "crypto"
    /\ ~Fresh(CoinKey, clock)
    /\ \E outcome \in {"success", "empty"} :
         /\ cache' = Put(cache, CoinKey, [data |-> CoinData(outcome)])
         /\ stamp' = Put(stamp, CoinKey, clock)
         /\ crypto' = [data |-> CoinData(outcome)]
    /\ page' = "render"
    /\ UNCHANGED <<ttl, clock>>
    /\ UNCHANGED <<sym_i, results, req_at, quotes, board, page_err>>
    /\ UNCHANGED <<label_vars, engine_vars, call_vars>>

\* crypto = fetch_json("/crypto", ...) or {}, coingecko_prices raises: crypto()
\* does not catch, the response is an error status and fetch_json returns
\* the default
FetchCryptoFailed ==
    /\ page = "crypto"
    /\ ~Fresh(CoinKey, clock)
    /\ \E outcome \in {"exception", "timeout"} : clock' = After(outcome)
    /\ crypto' = NoEntries
    /\ page' = "render"
    /\ UNCHANGED <<ttl, cache, stamp>>
    /\ UNCHANGED <<sym_i, results, req_at, quotes, board, page_err>>
    /\ UNCHANGED <<label_vars, engine_vars, call_vars>>

\* d.get("data") is truthy
DataTruthy(d) == "data" \in DOMAIN d /\ d.data # NoEntries

\* q[sym]['last'] raises KeyError for some symbol of the indices line
IndicesLineRaises ==
    DataTruthy(quotes) /\ \E i \in DOMAIN BoardSymbols :
        \/ BoardSymbols[i] \notin DOMAIN quotes.data
        \/ "last" \notin DOMAIN quotes.data[BoardSymbols[i]]

\* c[coin]['USD'] raises KeyError for some coin of the crypto line
CryptoLineRaises ==
    DataTruthy(crypto) /\ \E i \in DOMAIN BoardCoins :
        \/ BoardCoins[i] \notin DOMAIN crypto.data
        \/ "USD" \notin DOMAIN crypto.data[BoardCoins[i]]

\* the two `if ...get("data")` blocks of the Live Board, no exception
RenderLiveBoard ==
    /\ page = "render"
    /\ ~IndicesLineRaises
    /\ ~CryptoLineRaises
    /\ board' =
         [indices |-> IF DataTruthy(quotes)
                      THEN [i \in DOMAIN BoardSymbols |-> quotes.data[BoardSymbols[i]].last]
                      ELSE <<>>,
          crypto  |-> IF DataTruthy(crypto)
                      THEN [i \in DOMAIN BoardCoins |-> crypto.data[BoardCoins[i]].USD]
                      ELSE <<>>]
    /\ page' = "load"
    /\ UNCHANGED <<sym_i, results, req_at, quotes, crypto, page_err>>
    /\ UNCHANGED <<cache_vars, label_vars, engine_vars, call_vars>>

\* a subscript of the Live Board raises KeyError: the script run ends there
RenderLiveBoardRaises ==
    /\ page = "render"
    /\ IndicesLineRaises \/ CryptoLineRaises
    /\ page' = "aborted"
    /\ page_err' = "KeyError"
    /\ UNCHANGED <<sym_i, results, req_at, quotes, crypto, board>>
    /\ UNCHANGED <<cache_vars, label_vars, engine_vars, call_vars>>

\* the script reaches "Load Data": headline and sections are read and drawn
LoadData ==
    /\ page = "load"
    /\ page' = "loaded"
    /\ UNCHANGED <<sym_i, results, req_at, quotes, crypto, board, page_err>>
    /\ UNCHANGED <<cache_vars, label_vars, engine_vars, call_vars>>

\* what the wrapper of key stores when the upstream request returns
StoredResult(key, outcome) ==
    IF key = CoinKey THEN [data |-> CoinData(outcome)]
    ELSE YahooResult(key[2], outcome)

\* the results a running server may hold for a key: none, or what a just
\* returned request with a result or with an empty result has stored
WarmCaches ==
    LET keys  == {YahooKey(IndexSymbols[i]) : i \in DOMAIN IndexSymbols} \cup {CoinKey}
        held  == [keys -> {"none", "success", "empty"}]
    IN  {[k \in {x \in keys : h[x] # "none"} |-> StoredResult(k, h[k])] : h \in held}

\* the script starts, the server running with some quotes cached
InitBoard ==
    /\ EngineIdle
    /\ LabelIdle
    /\ CallsIdle
    /\ ttl = (YahooFunc :> YahooTtl) @@ (CoinFunc :> CoinTtl)
    /\ cache \in WarmCaches
    /\ stamp = [k \in DOMAIN cache |-> 0]
    /\ clock = 0
    /\ page = "indices"
    /\ sym_i = 1
    /\ results = NoEntries
    /\ req_at = 0
    /\ quotes = NoEntries
    /\ crypto = NoEntries
    /\ board = NoBoard
    /\ page_err = ""

NextBoard ==
    \/ IndicesSymbolCached
    \/ IndicesSymbolFetched
    \/ IndicesSymbolFailed
    \/ FetchIndices
    \/ FetchCryptoCached
    \/ FetchCryptoFetched
    \/ FetchCryptoFailed
    \/ RenderLiveBoard
    \/ RenderLiveBoardRaises
    \/ LoadData

SpecBoard == InitBoard /\ [][NextBoard]_vars

(***************************************************************************)
(* Calls of one ttl_cache wrapper, interleaved at its await.  A call runs  *)
(* from entry to the await (or to `return cache[key]`) in one step and     *)
(* from the await to its end in another; other calls and the clock may     *)
(* move in between.                                                        *)
(***************************************************************************)
\* bounds: calls made, seconds on the clock, the largest ttl_seconds
MaxCalls == 3
MaxClock == 3
MaxTtl == 2

\* the wrapped function, the arguments it is called with, what it returns
Wrapped == "func"
Args == {"a", "b"}
Results == {"r1", "r2"}

WrappedKey(arg) == <<Wrapped, arg>>

\* a step of a call, with the maps as they were before it
Step(kind, key, t, res) ==
    [kind |-> kind, key |-> key, t |-> t, res |-> res,
     cache0 |-> cache, stamp0 |-> stamp]

\* a call finds a fresh entry: return cache[key]
CallHit ==
    /\ ncalls < MaxCalls
    /\ \E arg \in Args :
         /\ Fresh(WrappedKey(arg), clock)
         /\ ret' = Step("hit", WrappedKey(arg), clock, cache[WrappedKey(arg)])
    /\ ncalls' = ncalls + 1
    /\ UNCHANGED <<cache_vars, calls, returned>>
    /\ UNCHANGED <<label_vars, board_vars, engine_vars>>

\* a call finds no fresh entry: it calls func and is suspended at the await
CallMiss ==
    /\ ncalls < MaxCalls
    /\ \E arg \in Args :
         /\ ~Fresh(WrappedKey(arg), clock)
         /\ calls' = calls \cup {[id |-> ncalls + 1, key |-> WrappedKey(arg), t |-> clock]}
         /\ ret' = Step("invoke", WrappedKey(arg), clock, "")
    /\ ncalls' = ncalls + 1
    /\ UNCHANGED <<cache_vars, returned>>
    /\ UNCHANGED <<label_vars, board_vars, engine_vars>>

\* func returns to a suspended call: cache[key] = res; stamp[key] = t; return res
CallReturns ==
    /\ \E c \in calls, res \in Results :
         /\ cache' = Put(cache, c.key, res)
         /\ stamp' = Put(stamp, c.key, c.t)
         /\ calls' = calls \ {c}
         /\ ret' = Step("return", c.key, c.t, res)
         /\ returned' = returned \cup {<<c.key, res, c.t>>}
    /\ UNCHANGED <<ttl, clock, ncalls>>
    /\ UNCHANGED <<label_vars, board_vars, engine_vars>>

\* func raises in a suspended call: the exception leaves the wrapper
CallRaises ==
    /\ \E c \in calls :
         /\ calls' = calls \ {c}
         /\ ret' = Step("raise", c.key, c.t, "exception")
    /\ UNCHANGED <<cache_vars, ncalls, returned>>
    /\ UNCHANGED <<label_vars, board_vars, engine_vars>>

\* a second passes
Tick ==
    /\ clock < MaxClock
    /\ clock' = clock + 1
    /\ UNCHANGED <<ttl, cache, stamp, call_vars>>
    /\ UNCHANGED <<label_vars, board_vars, engine_vars>>

\* func decorated with ttl_cache(ttl_seconds), nothing called yet
InitCache ==
    /\ EngineIdle
    /\ LabelIdle
    /\ BoardIdle
    /\ CallsIdle
    /\ \E n \in 1..MaxTtl : ttl = (Wrapped :> n)
    /\ cache = NoEntries
    /\ stamp = NoEntries
    /\ clock = 0

NextCache ==
    \/ CallHit
    \/ CallMiss
    \/ CallReturns
    \/ CallRaises
    \/ Tick

SpecCache == InitCache /\ [][NextCache]_vars

(***************************************************************************)
(* Properties.                                                             *)
(***************************************************************************)
\* the indicators of section i with a defined score in month t
DefinedInds(i, t) ==
    {j \in 1..Len(cfg.sections[i].indicators) :
        /\ <<i, j>> \in DOMAIN indicator_scores
        /\ Defined(indicator_scores[<<i, j>>][t])}

\* C1: in every month, a section's score is missing when none of its
\* indicators has a defined score, and otherwise is sum(w_i * v_i) / sum(w_i)
\* over the indicators defined that month, or their plain mean when those
\* weights sum to 0; with one indicator defined it is that indicator's score.
C1_SectionWeightedMean ==
    \A i \in DOMAIN section_scores : \A t \in 1..GridLen :
        LET sec  == cfg.sections[i]
            defd == DefinedInds(i, t)
            w    == [j \in defd |-> SectionWeightOf(sec, j)]
            v    == [j \in defd |-> indicator_scores[<<i, j>>][t]]
            wv   == [j \in defd |-> Mul(w[j], v[j])]
            wsum == SumOver(w, defd)
            got  == section_scores[i][t]
        IN  /\ defd = {} => IsNaN(got)
            /\ defd # {} /\ wsum = Zero =>
                 got = Div(SumOver(v, defd), IntNum(Cardinality(defd)))
            /\ defd # {} /\ wsum # Zero => got = Div(SumOver(wv, defd), wsum)
            /\ \A j \in defd : defd = {j} => got = v[j]

\* C1 witness: a month in which two indicators of a section have different
\* scores and different positive weights, and the section score is computed
C1_Witness ==
    \E i \in DOMAIN section_scores : \E t \in 1..GridLen :
        \E j, k \in DefinedInds(i, t) :
            /\ j # k
            /\ indicator_scores[<<i, j>>][t] # indicator_scores[<<i, k>>][t]
            /\ Less(Zero, SectionWeightOf(cfg.sections[i], j))
            /\ Less(SectionWeightOf(cfg.sections[i], j),
                    SectionWeightOf(cfg.sections[i], k))
            /\ Defined(section_scores[i][t])

InRange(x) == IsNaN(x) \/ (Leq(Zero, x) /\ Leq(x, IntNum(ScoreMax)))

\* the indicator spec whose score is indicator_scores[p]
IndOf(p) == cfg.sections[p[1]].indicators[p[2]]

\* C2: every value of every indicator score, section score, raw headline and
\* smoothed headline is missing or lies in [0, 100].
C2_ScoresInRange ==
    /\ \A p \in DOMAIN indicator_scores : \A t \in 1..GridLen :
          InRange(indicator_scores[p][t])
    /\ \A i \in DOMAIN section_scores : \A t \in 1..GridLen :
          InRange(section_scores[i][t])
    /\ \A t \in DOMAIN headline : InRange(headline[t])
    /\ \A t \in DOMAIN headline_smoothed : InRange(headline_smoothed[t])

\* C2 witness: compute returned, and a zscore indicator with clip >
\* z_to_100_sigma has a month whose mapped value exceeded 100 and scores 100
C2_Witness ==
    /\ pc = "done"
    /\ \E p \in DOMAIN indicator_scores : \E t \in 1..GridLen :
          LET ind  == IndOf(p)
              norm == NormOf(ind)
          IN  /\ norm.method = "zscore"
              /\ Less(norm.z_to_100_sigma, norm.clip)
              /\ Less(IntNum(ScoreMax),
                      MapZ(ClipZ(ZOf(DirectedSeries(SeriesOf(ind.id), ind),
                                     WindowOf(ind), t), norm.clip),
                           norm.z_to_100_sigma))
              /\ indicator_scores[p][t] = IntNum(ScoreMax)
              /\ headline_smoothed[t] = IntNum(ScoreMax)

\* the scenario of C3: the series twelve 10s then 20, one level /
\* higher_is_worse indicator, one section of weight 1, zscore 12 / 3 / 2
IsScenarioA ==
    /\ ts = [id \in {"A"} |-> ScenarioSeries(20)]
    /\ Len(cfg.sections) = 1
    /\ cfg.sections[1].weight = One
    /\ Len(cfg.sections[1].indicators) = 1
    /\ cfg.sections[1].indicators[1].transform = "level"
    /\ cfg.sections[1].indicators[1].direction = "higher_is_worse"
    /\ cfg.sections[1].indicators[1].normalise = Norm("zscore", 12, 3, 2)

\* |x - 50| <= 1
NearBaseline(x) ==
    /\ Defined(x)
    /\ Leq(IntNum(Baseline - 1), x)
    /\ Leq(x, IntNum(Baseline + 1))

\* C3 as stated: in scenario A the score (indicator, section and headline)
\* is missing in months 1-5, about 50 in the flat months 6-12, and in month
\* 13 greater than 50 and at most 85.
C3_ScenarioAsStated ==
    IsScenarioA /\ pc = "done" =>
        \A sc \in {indicator_scores[<<1, 1>>], section_scores[1], headline} :
            /\ \A t \in 1..5 : IsNaN(sc[t])
            /\ \A t \in 6..12 : NearBaseline(sc[t])
            /\ Less(IntNum(Baseline), sc[13])
            /\ Leq(sc[13], IntNum(Baseline + SigmaSpan))

\* C3 amended: in scenario A the score (indicator, section and headline) is
\* missing in months 1-5, missing in the flat months 6-12 (zero variance in
\* the window), and exactly 100 in month 13 (z clipped to 3 maps to 102.5,
\* clipped to 100).
C3_ScenarioAmended ==
    IsScenarioA /\ pc = "done" =>
        \A sc \in {indicator_scores[<<1, 1>>], section_scores[1], headline} :
            /\ \A t \in 1..12 : IsNaN(sc[t])
            /\ sc[13] = IntNum(ScoreMax)

\* C3 witness: compute returned on scenario A with a score in month 13
C3_Witness ==
    /\ IsScenarioA
    /\ pc = "done"
    /\ Defined(headline[13])
    /\ Defined(indicator_scores[<<1, 1>>][13])

\* C4 as stated: compute never returns when no section has a defined score
\* in any month; it raises instead.
C4_NeverReturnsAllMissing ==
    pc = "done" =>
        \E i \in DOMAIN section_scores : \E t \in 1..GridLen :
            Defined(section_scores[i][t])

\* number of observations in the trailing window of indicator p at month t
ObsCount(p, t) ==
    Cardinality(RollObs(DirectedSeries(SeriesOf(IndOf(p).id), IndOf(p)),
                        WindowOf(IndOf(p)), t))

\* C5 as stated: scoring never raises for any window_months >= 1, and a
\* month with fewer than max(6, window_months/2) observations in its window
\* has a missing score.
C5_InsufficientNeverRaises ==
    /\ err # "ValueError: min_periods must be <= window"
    /\ \A p \in DOMAIN indicator_scores : \A t \in 1..GridLen :
          2 * ObsCount(p, t) < Max2(2 * MinObs, WindowOf(IndOf(p)))
              => IsNaN(indicator_scores[p][t])

\* C6 as stated: with span_months = 1 the smoothed headline equals the raw
\* headline at every month, missing exactly where the raw value is missing.
C6_SpanOneIsIdentity ==
    pc = "done" /\ SpanOf = 1 => headline_smoothed = headline

Flip(direction) ==
    IF direction = "lower_is_worse" THEN "higher_is_worse" ELSE "lower_is_worse"

\* the score of indicator p's series under p's spec with the direction flipped
FlippedScore(p) ==
    compute_indicator_score(SeriesOf(IndOf(p).id),
                            [IndOf(p) EXCEPT !.direction = Flip(@)])

\* C7: the scores of one series under two specs that differ only in
\* direction are defined in the same months and sum to 100 there.  (The
\* scores are compared where compute stores them: indicator_scores changes
\* only inside the section loop.)
C7_DirectionMirror ==
    pc = "sections" =>
        \A p \in DOMAIN indicator_scores :
            LET flipped == FlippedScore(p)
            IN  \A t \in 1..GridLen :
                    LET a == indicator_scores[p][t]
                        b == flipped[t]
                    IN  /\ Defined(a) <=> Defined(b)
                        /\ Defined(a) => Add(a, b) = IntNum(ScoreMax)

\* C7 witness: a scored month strictly between 50 and 100 (a zscore month)
\* and a scored minmax month, each mirrored by the flipped spec
C7_Witness ==
    /\ pc = "sections"
    /\ \E p \in DOMAIN indicator_scores : \E t \in 1..GridLen :
          /\ NormOf(IndOf(p)).method = "zscore"
          /\ Less(IntNum(Baseline), indicator_scores[p][t])
          /\ Less(indicator_scores[p][t], IntNum(ScoreMax))
          /\ Less(FlippedScore(p)[t], IntNum(Baseline))
    /\ \E p \in DOMAIN indicator_scores : \E t \in 1..GridLen :
          /\ NormOf(IndOf(p)).method # "zscore"
          /\ indicator_scores[p][t] = IntNum(ScoreMax)
          /\ FlippedScore(p)[t] = Zero

\* C8: in a month where a section's score is missing, the raw headline equals
\* the raw headline aggregated without that section (the remaining weights
\* renormalised, uniform when they sum to 0).
C8_AbsentEqualsMissing ==
    pc \in {"smooth", "done"} =>
        \A k \in DOMAIN section_scores : \A t \in 1..GridLen :
            LET rest == DOMAIN section_scores \ {k}
            IN  IsNaN(section_scores[k][t]) /\ rest # {} =>
                    headline[t] = HeadlineOf(section_scores, rest)[t]

\* C8 witness: three scored sections, one of positive weight missing in a
\* month in which the other two have different scores and different positive
\* weights, and the headline of that month is computed
C8_Witness ==
    /\ pc = "done"
    /\ \E k, a, b \in DOMAIN section_scores : \E t \in 1..GridLen :
          /\ k # a /\ k # b /\ a # b
          /\ IsNaN(section_scores[k][t])
          /\ Less(Zero, cfg.sections[k].weight)
          /\ Defined(section_scores[a][t]) /\ Defined(section_scores[b][t])
          /\ section_scores[a][t] # section_scores[b][t]
          /\ Less(Zero, cfg.sections[a].weight)
          /\ Less(cfg.sections[a].weight, cfg.sections[b].weight)
          /\ Defined(headline[t])

\* the transformed, direction-adjusted series of indicator p
DirectedOf(p) == DirectedSeries(SeriesOf(IndOf(p).id), IndOf(p))

\* C9: a month whose trailing window has enough observations but only one
\* distinct value has a missing score, under zscore and under minmax.
C9_ZeroVarianceMissing ==
    \A p \in DOMAIN indicator_scores :
        LET s == DirectedOf(p)
            w == WindowOf(IndOf(p))
        IN  \A t \in 1..GridLen :
                /\ Cardinality(RollObs(s, w, t)) >= MinPeriods(w)
                /\ Cardinality({s[i] : i \in RollObs(s, w, t)}) = 1
                => IsNaN(indicator_scores[p][t])

\* C9 witness: compute returned with a zscore indicator that has a
\* one-valued full window in one month (its own value in it) and a defined
\* score in another
C9_Witness ==
    /\ pc = "done"
    /\ \E p \in DOMAIN indicator_scores : \E t, u \in 1..GridLen :
          LET s == DirectedOf(p)
              w == WindowOf(IndOf(p))
          IN  /\ NormOf(IndOf(p)).method = "zscore"
              /\ Cardinality(RollObs(s, w, t)) >= MinPeriods(w)
              /\ Cardinality({s[i] : i \in RollObs(s, w, t)}) = 1
              /\ IsFinite(s[t])
              /\ IsNaN(indicator_scores[p][t])
              /\ Defined(indicator_scores[p][u])

\* section i has two indicators of weight 0.5 each, indicator `gone` has no
\* input row at all and the other one has data
HalfHalfWithAbsent(i, gone) ==
    LET inds == cfg.sections[i].indicators
    IN  /\ Len(inds) = 2
        /\ inds[1].section_weight = Half /\ inds[2].section_weight = Half
        /\ gone \in 1..2
        /\ inds[gone].id \notin DOMAIN ts
        /\ HasData(inds[3 - gone].id)

\* C10: in a section of two indicators weighted 0.5/0.5, in either order,
\* where one has no input row, compute does not fail and the section score
\* series is the other indicator's score series.
C10_AbsentIndicatorSkipped ==
    \A i \in 1..Len(cfg.sections) : \A gone \in 1..2 :
        HalfHalfWithAbsent(i, gone) =>
            /\ pc # "failed"
            /\ sec_i > i =>
                 /\ i \in DOMAIN section_scores
                 /\ section_scores[i] = indicator_scores[<<i, 3 - gone>>]

\* C10 witness: compute returned, the first configured indicator is the one
\* without rows, and the other's score is defined in some month
C10_Witness ==
    /\ pc = "done"
    /\ HalfHalfWithAbsent(1, 1)
    /\ \E t \in 1..GridLen : Defined(section_scores[1][t])

\* C11: momentum_label classifies with z-score priority: for every score
\* series that is not empty, the label is Worsening whenever the latest
\* 12-month rolling z-score is >= 0.5 and Easing whenever it is <= -0.5,
\* whatever the 3-month slope; the slope decides only when the z-score
\* decides neither
C11_ZScorePriority ==
    (label # "pending" /\ label # "Unknown") =>
        /\ ZLastHigh(series) => label = "Worsening"
        /\ ZLastLow(series) => label = "Easing"

\* C12: upstream quote-fetch failures are non-blocking: whatever each
\* upstream request does (success, empty result, exception, timeout), the
\* script never aborts at the Live Board but goes on to load the headline and
\* section data, and every symbol whose own fetch gave a quote is shown with
\* it: only the affected field is absent
C12_FailuresNonBlocking ==
    /\ page # "aborted"
    /\ page = "loaded" =>
         \A i \in DOMAIN BoardSymbols :
            "last" \in DOMAIN results[BoardSymbols[i]] =>
                /\ board.indices # <<>>
                /\ board.indices[i] = results[BoardSymbols[i]].last

\* C13: ttl_cache safety over any interleaving of calls: a call returns a
\* stored result without invoking the function only if that result was
\* stored for the same key, by a call that returned normally, with a
\* timestamp less than ttl_seconds before the call; every other call
\* invokes the function; only results of calls that returned normally are
\* stored, and a call that raises leaves cache and stamp unchanged
C13_CacheSafety ==
    /\ ret.kind = "hit" =>
         /\ ret.key \in DOMAIN ret.cache0
         /\ ret.res = ret.cache0[ret.key]
         /\ ret.t - ret.stamp0[ret.key] < ttl[ret.key[1]]
         /\ <<ret.key, ret.res, ret.stamp0[ret.key]>> \in returned
         /\ cache = ret.cache0 /\ stamp = ret.stamp0
    /\ ret.kind = "invoke" =>
         ~(ret.key \in DOMAIN ret.cache0
           /\ ret.t - ret.stamp0[ret.key] < ttl[ret.key[1]])
    /\ ret.kind = "raise" => cache = ret.cache0 /\ stamp = ret.stamp0
    /\ DOMAIN cache = DOMAIN stamp
    /\ \A k \in DOMAIN cache : <<k, cache[k], stamp[k]>> \in returned

\* every call made and finished, the last one served a stored result a
\* second after the storing call began and a second before it expires
C13_Witness ==
    /\ ret.kind = "hit"
    /\ ret.t > stamp[ret.key]
    /\ ret.t - stamp[ret.key] = ttl[ret.key[1]] - 1
    /\ calls = {}
    /\ ncalls = MaxCalls

====
